---- MODULE Spec2Model ----
(***************************************************************************)
(* compas_model elements: Beam and Block with lazily cached derived        *)
(* geometry (aabb, obb, collision_mesh, face_polygons), their transform,   *)
(* transformed (copy + transform) and their constructors.                  *)
(*                                                                         *)
(* Geometry lives on the integer lattice: points and vectors are integer   *)
(* triples, rigid transformations are lattice translations composed with   *)
(* rotations by multiples of 90 degrees, box sizes are even so that half    *)
(* extents are integers.  None and the empty list are both the empty       *)
(* sequence; a populated cache slot is a one-element sequence (a populated *)
(* face polygon list is the non-empty list itself).                        *)
(***************************************************************************)
EXTENDS Integers, Sequences, FiniteSets, TLC

VARIABLES el, orig, chain, last, ret, ncalls

vars == <<el, orig, chain, last, ret, ncalls>>

(***************************************************************************)
(* Bounds of the model.                                                    *)
(***************************************************************************)
\* transform / transformed calls on one object lineage
MaxCalls == 2
\* depth at which the interpreter gives up on a recursion (RecursionError)
RecursionLimit == 3
\* elements of one broad phase query
MaxElements == 3

(***************************************************************************)
(* Vectors and points (compas.geometry kernel).                            *)
(***************************************************************************)
Vec(x, y, z) == <<x, y, z>>

add_vectors(u, v) == <<u[1] + v[1], u[2] + v[2], u[3] + v[3]>>

subtract_vectors(u, v) == <<u[1] - v[1], u[2] - v[2], u[3] - v[3]>>

scale_vector(v, k) == <<v[1] * k, v[2] * k, v[3] * k>>

\* v * k * 0.5 for a vector whose product with k is even in every component
half_scale(v, k) == <<(v[1] * k) \div 2, (v[2] * k) \div 2, (v[3] * k) \div 2>>

dot_vectors(u, v) == u[1] * v[1] + u[2] * v[2] + u[3] * v[3]

cross_vectors(u, v) ==
  <<u[2] * v[3] - u[3] * v[2], u[3] * v[1] - u[1] * v[3], u[1] * v[2] - u[2] * v[1]>>

Abs(n) == IF n < 0 THEN -n ELSE n

Sign(n) == IF n < 0 THEN -1 ELSE IF n > 0 THEN 1 ELSE 0

IsZero(v) == v = <<0, 0, 0>>

\* the vectors of the model are multiples of a coordinate axis, whose length
\* is the sum of the absolute components and whose unit vector is the sign
length_vector(v) == Abs(v[1]) + Abs(v[2]) + Abs(v[3])

normalize_vector(v) == <<Sign(v[1]), Sign(v[2]), Sign(v[3])>>

Min(a, b) == IF a < b THEN a ELSE b

Max(a, b) == IF a > b THEN a ELSE b

RECURSIVE SeqMin(_, _), SeqMax(_, _), SeqSum(_, _)
SeqMin(ps, k) ==
  IF Len(ps) = 1 THEN ps[1][k] ELSE Min(ps[1][k], SeqMin(Tail(ps), k))

SeqMax(ps, k) ==
  IF Len(ps) = 1 THEN ps[1][k] ELSE Max(ps[1][k], SeqMax(Tail(ps), k))

SeqSum(ps, k) ==
  IF Len(ps) = 0 THEN 0 ELSE ps[1][k] + SeqSum(Tail(ps), k)

\* centroid_points: the average of the points (exact on the model's inputs)
centroid_points(ps) ==
  <<SeqSum(ps, 1) \div Len(ps), SeqSum(ps, 2) \div Len(ps), SeqSum(ps, 3) \div Len(ps)>>

\* bounding_box: the 8 corners of the axis aligned box of a point list
bounding_box(ps) ==
  LET x0 == SeqMin(ps, 1) x1 == SeqMax(ps, 1)
      y0 == SeqMin(ps, 2) y1 == SeqMax(ps, 2)
      z0 == SeqMin(ps, 3) z1 == SeqMax(ps, 3)
  IN << <<x0, y0, z0>>, <<x1, y0, z0>>, <<x1, y1, z0>>, <<x0, y1, z0>>,
        <<x0, y0, z1>>, <<x1, y0, z1>>, <<x1, y1, z1>>, <<x0, y1, z1>> >>

(***************************************************************************)
(* Rigid transformations: a rotation matrix (rows) and a translation.      *)
(***************************************************************************)
Xform(r1, r2, r3, t) == [t |-> t, R |-> <<r1, r2, r3>>]

TrX == Xform(<<1, 0, 0>>, <<0, 1, 0>>, <<0, 0, 1>>, <<2, 0, 0>>)

TrXInv == Xform(<<1, 0, 0>>, <<0, 1, 0>>, <<0, 0, 1>>, <<-2, 0, 0>>)

\* the rotation by 120 degrees about (1, 1, 1): x -> y -> z -> x
Cyc == Xform(<<0, 0, 1>>, <<1, 0, 0>>, <<0, 1, 0>>, <<0, 0, 0>>)

Transforms == {TrX, TrXInv, Cyc}

transform_vector(v, T) ==
  <<dot_vectors(T.R[1], v), dot_vectors(T.R[2], v), dot_vectors(T.R[3], v)>>

transform_point(p, T) == add_vectors(transform_vector(p, T), T.t)

transform_points(ps, T) == [i \in 1..Len(ps) |-> transform_point(ps[i], T)]

\* Transformation.inverse() of a rigid transformation: (R^T, -R^T t)
Transpose(R) ==
  << <<R[1][1], R[2][1], R[3][1]>>, <<R[1][2], R[2][2], R[3][2]>>,
     <<R[1][3], R[2][3], R[3][3]>> >>

Inverse(T) ==
  LET Rt == Transpose(T.R)
  IN [t |-> scale_vector(transform_vector(T.t, [t |-> <<0, 0, 0>>, R |-> Rt]), -1), R |-> Rt]

(***************************************************************************)
(* Frame, Line, Polygon, Box and Mesh of the geometry kernel.              *)
(***************************************************************************)
\* Frame(point, xaxis, yaxis): the axes are made orthonormal
Frame(point, xaxis, yaxis) ==
  LET x == normalize_vector(xaxis)
      z == normalize_vector(cross_vectors(x, yaxis))
  IN [point |-> point, xaxis |-> x, yaxis |-> cross_vectors(z, x)]

zaxis(frame) == cross_vectors(frame.xaxis, frame.yaxis)

frame_transform(frame, T) ==
  [point |-> transform_point(frame.point, T),
   xaxis |-> transform_vector(frame.xaxis, T),
   yaxis |-> transform_vector(frame.yaxis, T)]

Box(xsize, ysize, zsize, frame) ==
  [frame |-> frame, xsize |-> xsize, ysize |-> ysize, zsize |-> zsize]

\* Box.width, Box.depth and Box.height read xsize, ysize and zsize
width(box) == box.xsize

depth(box) == box.ysize

height(box) == box.zsize

\* Box.transform moves the frame; the sizes are kept by a rigid motion
box_transform(box, T) == [box EXCEPT !.frame = frame_transform(@, T)]

\* Box.corner(index): the frame point moved by half of each size along +-
\* the axes; the signs of the 8 corners a, b, c, d (bottom), e, f, g, h
corner_signs ==
  << <<-1, -1, -1>>, <<-1, 1, -1>>, <<1, 1, -1>>, <<1, -1, -1>>,
     <<-1, -1, 1>>, <<1, -1, 1>>, <<1, 1, 1>>, <<-1, 1, 1>> >>

box_corner(p, dx, dy, dz, s) ==
  <<p[1] + s[1] * dx[1] + s[2] * dy[1] + s[3] * dz[1],
    p[2] + s[1] * dx[2] + s[2] * dy[2] + s[3] * dz[2],
    p[3] + s[1] * dx[3] + s[2] * dy[3] + s[3] * dz[3]>>

\* Box.vertices
box_vertices(box) ==
  [i \in 1..8 |->
     box_corner(box.frame.point, half_scale(box.frame.xaxis, box.xsize),
                half_scale(box.frame.yaxis, box.ysize),
                half_scale(zaxis(box.frame), box.zsize), corner_signs[i])]

box_faces ==
  << <<1, 2, 3, 4>>, <<1, 4, 6, 5>>, <<4, 3, 7, 6>>, <<3, 2, 8, 7>>,
     <<2, 1, 5, 8>>, <<5, 6, 7, 8>> >>

\* Box.from_bounding_box: axes from corner 0 to corners 1, 3 and 4
from_bounding_box(bbox) ==
  Box(length_vector(subtract_vectors(bbox[2], bbox[1])),
      length_vector(subtract_vectors(bbox[4], bbox[1])),
      length_vector(subtract_vectors(bbox[5], bbox[1])),
      Frame(centroid_points(bbox), subtract_vectors(bbox[2], bbox[1]),
            subtract_vectors(bbox[4], bbox[1])))

\* Box.from_points: the axis aligned box of the points
from_points(ps) == from_bounding_box(bounding_box(ps))

Mesh(vertices, faces) == [vertices |-> vertices, faces |-> faces, type |-> "Mesh"]

mesh_transform(mesh, T) == [mesh EXCEPT !.vertices = transform_points(@, T)]

\* convex_hull of the corners of a cuboid: every quad face as two triangles
convex_hull(points) ==
  [i \in 1..12 |->
     IF i % 2 = 1
     THEN <<box_faces[(i + 1) \div 2][1], box_faces[(i + 1) \div 2][2], box_faces[(i + 1) \div 2][3]>>
     ELSE <<box_faces[(i + 1) \div 2][1], box_faces[(i + 1) \div 2][3], box_faces[(i + 1) \div 2][4]>>]

\* truth value of a cache slot: None and the empty list are false
Truthy(slot) == Len(slot) > 0

None == <<>>

Some(v) == <<v>>

\* outcome of a call: the object after it, the exception raised ("ok" when
\* none), the compute methods that ran and the value returned
Result(e, err, calls, value) == [el |-> e, ret |-> value, err |-> err, calls |-> calls]

Raise(e, err) == Result(e, err, {}, None)

NoElement == [kind |-> "None"]

(***************************************************************************)
(* Beam (one_dimensional/beam.py).                                         *)
(***************************************************************************)
\* Beam._create_box(frame, xsize, ysize, zsize): Box(zsize, xsize, ysize)
\* on the frame moved by half of zsize along its x axis
_create_box(frame, xsize, ysize, zsize) ==
  Box(zsize, xsize, ysize,
      [frame EXCEPT !.point = add_vectors(@, half_scale(frame.xaxis, zsize))])

\* Element.__init__ as Beam and Block call it: the caches start at None
Element(kind, frame, geometry_simplified, geometry, face_polygons_) ==
  [frame |-> frame, kind |-> kind, geometry_simplified |-> geometry_simplified,
   geometry |-> geometry, _aabb |-> None, _obb |-> None, _collision_mesh |-> None,
   _face_polygons |-> face_polygons_]

\* the checks in the order width, height, length
Beam_width_first(frame, length, width_, height_) ==
  IF width_ <= 0
  THEN Raise(NoElement, "ValueError: Width should be greater than zero.")
  ELSE IF height_ <= 0
  THEN Raise(NoElement, "ValueError: Height should be greater than zero.")
  ELSE IF length <= 0
  THEN Raise(NoElement, "ValueError: Length should be greater than zero.")
  ELSE Result(Element("Beam", frame,
                      <<frame.point, add_vectors(frame.point, scale_vector(frame.xaxis, length))>>,
                      _create_box(frame, width_, height_, length), None),
              "ok", {}, None)

\* Beam.__init__: the checks of length, width and height, in that order,
\* come before the element is built
Beam(frame, length, width_, height_) ==
  IF length <= 0
  THEN Raise(NoElement, "ValueError: Length should be greater than zero.")
  ELSE IF width_ <= 0
  THEN Raise(NoElement, "ValueError: Width should be greater than zero.")
  ELSE IF height_ <= 0
  THEN Raise(NoElement, "ValueError: Height should be greater than zero.")
  ELSE Result(Element("Beam", frame,
                      <<frame.point, add_vectors(frame.point, scale_vector(frame.xaxis, length))>>,
                      _create_box(frame, width_, height_, length), None),
              "ok", {}, None)

\* angle_vectors(z, x) < tol.angular or > 3.141592 - tol.angular
AngleNearZeroOrPi(u, v) == IsZero(cross_vectors(u, v)) /\ dot_vectors(u, v) # 0

\* the z_vector from_line works with: (0, 0, 1), or (1, 0, 0) for an axis
\* along it, when none is given (None is the empty sequence, a given vector a
\* one-element sequence: a Vector is true whatever its components)
line_z_vector(x_vector, z_vector) ==
  IF ~Truthy(z_vector)
  THEN IF AngleNearZeroOrPi(<<0, 0, 1>>, x_vector) THEN <<1, 0, 0>> ELSE <<0, 0, 1>>
  ELSE z_vector[1]

\* no check of the length of y_vector
line_beam_unchecked(start, x_vector, y_vector, width_, height_) ==
  Beam(Frame(start, x_vector, y_vector), length_vector(x_vector), width_, height_)

\* from_line after y_vector = cross(x_vector, z_vector) * -1.0
line_beam(start, x_vector, y_vector, width_, height_) ==
  IF length_vector(y_vector) = 0
  THEN Raise(NoElement,
             "ValueError: The given z_vector seems to be parallel to the given center_axis.")
  ELSE Beam(Frame(start, x_vector, y_vector), length_vector(x_vector), width_, height_)

\* Beam.from_line(center_axis, width, height, z_vector); angle_vectors
\* divides by the length of the axis
from_line(center_axis, width_, height_, z_vector) ==
  IF ~Truthy(z_vector) /\ IsZero(subtract_vectors(center_axis[2], center_axis[1]))
  THEN Raise(NoElement, "ZeroDivisionError")
  ELSE line_beam(center_axis[1], subtract_vectors(center_axis[2], center_axis[1]),
                 scale_vector(cross_vectors(subtract_vectors(center_axis[2], center_axis[1]),
                                            line_z_vector(subtract_vectors(center_axis[2],
                                                                           center_axis[1]),
                                                          z_vector)), -1),
                 width_, height_)

\* Beam.dimensions: [geometry.width, geometry.height, geometry.depth]
beam_dimensions(e) == <<width(e.geometry), height(e.geometry), depth(e.geometry)>>

\* the three sizes scaled by the one factor (width + inflate) / width
scale_sizes_uniformly(box, inflate) ==
  [box EXCEPT !.xsize = (@ * (width(box) + inflate)) \div width(box),
              !.ysize = (@ * (width(box) + inflate)) \div width(box),
              !.zsize = (@ * (width(box) + inflate)) \div width(box)]

\* xsize *= (width + inflate) / width, and so for ysize with depth and zsize
\* with height, in exact arithmetic
scale_sizes(box, inflate) ==
  [box EXCEPT !.xsize = (@ * (width(box) + inflate)) \div width(box),
              !.ysize = (@ * (depth(box) + inflate)) \div depth(box),
              !.zsize = (@ * (height(box) + inflate)) \div height(box)]

\* the box is returned and the slot is left as it was
aabb_not_stored(e, box) == Result(e, "ok", {"compute_aabb"}, Some(box))

\* self._aabb = box; return self._aabb
store_aabb(e, box) == Result([e EXCEPT !._aabb = Some(box)], "ok", {"compute_aabb"}, Some(box))

\* self._obb = box; return self._obb
store_obb(e, box) == Result([e EXCEPT !._obb = Some(box)], "ok", {"compute_obb"}, Some(box))

\* self._collision_mesh = mesh; return a mesh of the same vertices and faces
store_collision_mesh(e, mesh) ==
  Result([e EXCEPT !._collision_mesh = Some(mesh)], "ok", {"compute_collision_mesh"}, Some(mesh))

\* Beam.compute_aabb: the box of the 8 corners of the geometry, inflated
beam_compute_aabb(e, inflate) ==
  store_aabb(e, scale_sizes(from_bounding_box(box_vertices(e.geometry)), inflate))

\* Beam.compute_obb: a copy of the geometry, inflated
beam_compute_obb(e, inflate) == store_obb(e, scale_sizes(e.geometry, inflate))

\* Beam.compute_collision_mesh: the mesh of the box
beam_compute_collision_mesh(e) ==
  store_collision_mesh(e, Mesh(box_vertices(e.geometry), box_faces))

\* Beam.mid_point
mid_point(e) ==
  add_vectors(e.frame.point, half_scale(e.frame.xaxis, beam_dimensions(e)[3]))

\* Polygon([p + o0 + o1, p + o0 - o1, p - o0 - o1, p - o0 + o1])
offset_quad(p, o0, o1) ==
  << add_vectors(add_vectors(p, o0), o1), subtract_vectors(add_vectors(p, o0), o1),
     subtract_vectors(subtract_vectors(p, o0), o1), add_vectors(subtract_vectors(p, o0), o1) >>

\* the six quads about p0, p1, p2, p3, frame.point and p5, from the mid point
\* and the half vectors hx, hy, hz along the axes of the frame
six_quads(mid, point, p5, hx, hy, hz) ==
  << offset_quad(add_vectors(mid, hy), hx, hz),
     offset_quad(subtract_vectors(mid, hz), hx, hy),
     offset_quad(subtract_vectors(mid, hy), hx, hz),
     offset_quad(add_vectors(mid, hz), hx, hy),
     offset_quad(point, hy, hz),
     offset_quad(p5, hy, hz) >>

\* Beam.compute_face_polygons
beam_face_polygons(e) ==
  six_quads(mid_point(e), e.frame.point,
            add_vectors(e.frame.point, scale_vector(e.frame.xaxis, beam_dimensions(e)[3])),
            half_scale(e.frame.xaxis, beam_dimensions(e)[3]),
            half_scale(e.frame.yaxis, beam_dimensions(e)[1]),
            half_scale(zaxis(e.frame), beam_dimensions(e)[2]))

(***************************************************************************)
(* Block (zero_dimensional/block.py).                                      *)
(***************************************************************************)
\* isinstance(closed_mesh, Mesh)
IsMesh(x) == x.type = "Mesh"

\* the element of a Block: the frame at the centroid, on the world axes
block_element(closed_mesh, centroid) ==
  Element("Block", Frame(centroid, <<1, 0, 0>>, <<0, 1, 0>>), <<centroid>>, closed_mesh, <<>>)

\* no type check: whatever has vertices is taken
Block_unchecked(closed_mesh) ==
  Result(block_element(closed_mesh, centroid_points(closed_mesh.vertices)), "ok", {}, None)

\* Block.__init__: the type check comes before the centroid and the element
Block(closed_mesh) ==
  IF ~IsMesh(closed_mesh)
  THEN Raise(NoElement, "TypeError: Mesh is not of type compas.datastructures.Mesh")
  ELSE Result(block_element(closed_mesh, centroid_points(closed_mesh.vertices)), "ok", {}, None)

\* size += inflate on the three sizes
add_sizes(box, inflate) ==
  [box EXCEPT !.xsize = @ + inflate, !.ysize = @ + inflate, !.zsize = @ + inflate]

\* Mesh.aabb(): the corners of the axis aligned box of the vertices
mesh_aabb(mesh) == bounding_box(mesh.vertices)

\* Mesh.obb(): the corners of the oriented box of the vertices; the meshes of
\* the model are cuboids along the coordinate axes, whose oriented box is the
\* cuboid itself
mesh_obb(mesh) == bounding_box(mesh.vertices)

\* Block.compute_aabb
block_compute_aabb(e, inflate) ==
  store_aabb(e, add_sizes(from_points(mesh_aabb(e.geometry)), inflate))

\* Block.compute_obb
block_compute_obb(e, inflate) ==
  store_obb(e, add_sizes(from_points(mesh_obb(e.geometry)), inflate))

\* Block.compute_collision_mesh: the convex hull of the vertices
block_compute_collision_mesh(e) ==
  store_collision_mesh(e, Mesh(e.geometry.vertices, convex_hull(e.geometry.vertices)))

\* Block._compute_face_polygons: the object always has the attribute
\* _face_polygons, which is returned as it is
block_compute_face_polygons(e) == e._face_polygons

(***************************************************************************)
(* The methods of either element.                                          *)
(***************************************************************************)
compute_aabb(e, inflate) ==
  IF e.kind = "Beam" THEN beam_compute_aabb(e, inflate) ELSE block_compute_aabb(e, inflate)

compute_obb(e, inflate) ==
  IF e.kind = "Beam" THEN beam_compute_obb(e, inflate) ELSE block_compute_obb(e, inflate)

compute_collision_mesh(e) ==
  IF e.kind = "Beam" THEN beam_compute_collision_mesh(e) ELSE block_compute_collision_mesh(e)

compute_face_polygons(e) ==
  Result(e, "ok", {"compute_face_polygons"},
         IF e.kind = "Beam" THEN beam_face_polygons(e) ELSE block_compute_face_polygons(e))

\* Element(geometry=None): no geometry was supplied
NoGeometry == [type |-> "None"]

\* the shape a subclass computes for itself: a box on the frame of the element
derived_shape(e) == Box(4, 2, 2, e.frame)

\* Element.compute_geometry raises NotImplementedError; a subclass that
\* overrides it returns its shape
compute_geometry(e) ==
  IF e.kind = "Derived" THEN Result(e, "ok", {"compute_geometry"}, Some(derived_shape(e)))
  ELSE Result(e, "NotImplementedError", {"compute_geometry"}, None)

\* self._geometry = self.compute_geometry(); return self._geometry
keep_geometry(r) ==
  IF r.err # "ok" THEN r
  ELSE Result([r.el EXCEPT !.geometry = r.ret[1]], "ok", r.calls, r.ret)

\* computed at every read
geometry_always_computed(e) == keep_geometry(compute_geometry(e))

\* Element.geometry: computed when self._geometry is None, then returned
geometry(e) ==
  IF e.geometry = NoGeometry THEN keep_geometry(compute_geometry(e))
  ELSE Result(e, "ok", {}, Some(e.geometry))

\* computed at every read
aabb_always_computed(e) == compute_aabb(e, 0)

\* Element.aabb: computed when the slot is false, then the slot is returned
aabb(e) ==
  IF ~Truthy(e._aabb) THEN compute_aabb(e, 0) ELSE Result(e, "ok", {}, e._aabb)

\* Element.obb
obb(e) ==
  IF ~Truthy(e._obb) THEN compute_obb(e, 0) ELSE Result(e, "ok", {}, e._obb)

\* self._collision_mesh = self.compute_collision_mesh()
keep_collision_mesh(r) == Result([r.el EXCEPT !._collision_mesh = r.ret], "ok", r.calls, r.ret)

\* Element.collision_mesh
collision_mesh(e) ==
  IF ~Truthy(e._collision_mesh) THEN keep_collision_mesh(compute_collision_mesh(e))
  ELSE Result(e, "ok", {}, e._collision_mesh)

\* self._face_polygons = self.compute_face_polygons()
keep_face_polygons(r) == Result([r.el EXCEPT !._face_polygons = r.ret], "ok", r.calls, r.ret)

\* Beam.face_polygons / Block.face_polygons
face_polygons(e) ==
  IF ~Truthy(e._face_polygons) THEN keep_face_polygons(compute_face_polygons(e))
  ELSE Result(e, "ok", {}, e._face_polygons)

\* [self.aabb.width, self.aabb.height, self.aabb.depth]
aabb_dimensions(r, calls) ==
  Result(r.el, "ok", calls \cup r.calls,
         <<width(r.ret[1]), height(r.ret[1]), depth(r.ret[1])>>)

\* the sizes of aabb as the slot has it
block_dimensions_cached(e) == aabb_dimensions(aabb(e), {})

\* Block.dimensions: compute_aabb() first, then the sizes of aabb
block_dimensions(e) == aabb_dimensions(aabb(compute_aabb(e, 0).el), {"compute_aabb"})

dimensions(e) ==
  IF e.kind = "Beam" THEN Result(e, "ok", {}, beam_dimensions(e)) ELSE block_dimensions(e)

(***************************************************************************)
(* transform.                                                              *)
(***************************************************************************)
polygons_transform(polygons, T) ==
  [i \in 1..Len(polygons) |-> transform_points(polygons[i], T)]

\* frame.transform, geometry_simplified.transform, geometry.transform
transform_base(e, T) ==
  [e EXCEPT !.frame = frame_transform(@, T),
            !.geometry_simplified = transform_points(@, T),
            !.geometry = IF e.kind = "Beam" THEN box_transform(@, T) ELSE mesh_transform(@, T)]

\* the condition reads the property instead of the slot: if self.aabb: ...
transform_aabb_by_property(e) == compute_aabb(aabb(e).el, 0).el

\* the box in the slot is left as it was
transform_aabb_stale(e) == e

\* if self._aabb: self.compute_aabb()
transform_aabb(e) == IF Truthy(e._aabb) THEN compute_aabb(e, 0).el ELSE e

\* the obb is computed again, as the aabb is
transform_obb_recomputed(e, T) == IF Truthy(e._obb) THEN compute_obb(e, 0).el ELSE e

\* if self._obb: self.obb.transform(transformation)
transform_obb(e, T) ==
  IF Truthy(e._obb) THEN [e EXCEPT !._obb = Some(box_transform(obb(e).ret[1], T))] ELSE e

\* if self._collision_mesh: self.collision_mesh.transform(transformation)
transform_collision_mesh(e, T) ==
  IF Truthy(e._collision_mesh)
  THEN [e EXCEPT !._collision_mesh = Some(mesh_transform(collision_mesh(e).ret[1], T))]
  ELSE e

\* if self._face_polygons: every polygon of self.face_polygons is transformed
transform_face_polygons(e, T) ==
  IF Truthy(e._face_polygons)
  THEN [e EXCEPT !._face_polygons = polygons_transform(face_polygons(e).ret, T)]
  ELSE e

\* the compute methods a transform runs
transform_calls(e) == IF Truthy(e._aabb) THEN {"compute_aabb"} ELSE {}

\* Beam.transform
beam_transform(e, T) ==
  Result(transform_face_polygons(
           transform_collision_mesh(transform_obb(transform_aabb(transform_base(e, T)), T), T),
           T),
         "ok", transform_calls(e), None)

\* Block.transform: with a collision mesh in the slot the method calls itself
\* with the same argument; the call number RecursionLimit + 1 is the one the
\* interpreter refuses, and the exception leaves through every call below
RECURSIVE block_transform_at(_, _, _)
block_transform_rest(e1, T, level) ==
  IF Truthy(e1._collision_mesh)
  THEN IF level >= RecursionLimit THEN Result(e1, "RecursionError", {}, None)
       ELSE block_transform_at(e1, T, level + 1)
  ELSE Result(e1, "ok", {}, None)

block_transform_end(r, T, calls) ==
  IF r.err # "ok" THEN Result(r.el, r.err, calls \cup r.calls, None)
  ELSE Result(transform_face_polygons(r.el, T), "ok", calls \cup r.calls, None)

block_transform_at(e, T, level) ==
  block_transform_end(
    block_transform_rest(transform_obb(transform_aabb(transform_base(e, T)), T), T, level),
    T, transform_calls(e))

block_transform(e, T) == block_transform_at(e, T, 1)

transform(e, T) ==
  IF e.kind = "Beam" THEN beam_transform(e, T) ELSE block_transform(e, T)

(***************************************************************************)
(* data, from_data, copy and transformed.                                  *)
(***************************************************************************)
\* the next read of data: the object goes on as the read leaves it, the
\* compute methods that ran add up
then_read(r, calls) == Result(r.el, r.err, calls \cup r.calls, r.ret)

\* the dictionary of data, from the object after the reads and the
\* dimensions that were read
data_of(e, dims, calls) ==
  Result(e, "ok", calls,
         [frame |-> e.frame, geometry_simplified |-> e.geometry_simplified,
          geometry |-> e.geometry, aabb |-> e._aabb, obb |-> e._obb,
          collision_mesh |-> e._collision_mesh,
          face_polygons |-> e._face_polygons, dimensions |-> dims])

data_face_polygons(r4, r5) == data_of(r5.el, r4.ret, r4.calls \cup r5.calls)

data_dimensions(r4) == data_face_polygons(r4, face_polygons(r4.el))

data_collision_mesh(r3) == data_dimensions(then_read(dimensions(r3.el), r3.calls))

data_obb(r2) == data_collision_mesh(then_read(collision_mesh(r2.el), r2.calls))

data_aabb(r1) == data_obb(then_read(obb(r1.el), r1.calls))

\* Beam.data / Block.data: reading aabb, obb, collision_mesh, dimensions and
\* face_polygons, in this order, fills the slots of the object that is read
data(e) == data_aabb(aabb(e))

\* data["geometry"][i] of a Box is the kernel's: a Box that is no sequence
\* raises TypeError, a Box that is the sequence (frame, xsize, ysize, zsize)
\* or the sequence (xsize, ysize, zsize) answers with a size
BoxItems == {"TypeError", "frame_first", "sizes_only"}

box_item(box, i, items) ==
  IF items = "frame_first"
  THEN IF i = 1 THEN box.xsize ELSE IF i = 2 THEN box.ysize ELSE box.zsize
  ELSE IF i = 0 THEN box.xsize ELSE IF i = 1 THEN box.ysize ELSE box.zsize

\* element._aabb = data["aabb"] and so on
set_slots(r, d) ==
  IF r.err # "ok" THEN r
  ELSE Result([r.el EXCEPT !._aabb = d.aabb, !._obb = d.obb,
                           !._collision_mesh = d.collision_mesh,
                           !._face_polygons = d.face_polygons],
              "ok", {}, None)

\* Beam.from_data: cls(frame, dimensions[0], geometry[1], geometry[2]), then
\* the slots are taken from the data
beam_from_data(d, items) ==
  IF items = "TypeError" THEN Raise(NoElement, "TypeError")
  ELSE set_slots(Beam(d.frame, d.dimensions[1], box_item(d.geometry, 1, items),
                      box_item(d.geometry, 2, items)), d)

\* element._frame = data["frame"]; cls was given data["geometry_simplified"]
set_frame(r, d) ==
  IF r.err # "ok" THEN r
  ELSE Result([r.el EXCEPT !.geometry_simplified = d.geometry_simplified, !.frame = d.frame],
              "ok", {}, None)

\* Block.from_data: cls(geometry, geometry_simplified), then the frame and the
\* slots are taken from the data
block_from_data(d) == set_slots(set_frame(Block(d.geometry), d), d)

from_data(kind, d, items) ==
  IF kind = "Beam" THEN beam_from_data(d, items) ELSE block_from_data(d)

\* the object that was copied as reading its data left it, and the copy
copied(d, r) == Result(d.el, r.err, d.calls, IF r.err = "ok" THEN Some(r.el) ELSE None)

copy_of(d, kind, items) == copied(d, from_data(kind, d.ret, items))

\* Data.copy: from_data of a deep copy of data
copy(e, items) == copy_of(data(e), e.kind, items)

\* element.transform(transformation); return element
transformed_copy(c, t) ==
  Result(c.el, t.err, c.calls \cup t.calls, IF t.err = "ok" THEN Some(t.el) ELSE None)

transform_copy(c, T) == IF c.err # "ok" THEN c ELSE transformed_copy(c, transform(c.ret[1], T))

\* Element.transformed: element = self.copy(); element.transform(T); return element
transformed(e, T, items) == transform_copy(copy(e, items), T)

(***************************************************************************)
(* Inputs of the calls.                                                    *)
(***************************************************************************)
WorldXY == Frame(<<0, 0, 0>>, <<1, 0, 0>>, <<0, 1, 0>>)

Frames == {WorldXY}

\* length, width and height of a Beam
Lengths == {-2, 0, 2, 4}

Widths == {-2, 0, 2}

Heights == {-2, 0, 2}

\* inflate of compute_aabb and compute_obb
Inflates == {0, 2}

\* center_axis of from_line: along x, along z, and of length zero
Lines ==
  { << <<0, 0, 0>>, <<2, 0, 0>> >>, << <<0, 2, 0>>, <<0, 2, 4>> >>,
    << <<2, 0, 0>>, <<2, 0, 0>> >> }

\* z_vector of from_line: None or a vector
ZVectors ==
  {None, Some(<<0, 0, 1>>), Some(<<1, 0, 0>>), Some(<<-1, 0, 0>>), Some(<<0, 0, 0>>)}

\* width and height of from_line
LineSizes == {0, 2}

\* the closed mesh of a cuboid with a corner at the origin
CuboidMesh(sx, sy, sz) ==
  Mesh(bounding_box(<< <<0, 0, 0>>, <<sx, sy, sz>> >>), box_faces)

\* closed_mesh of Block: a mesh, a Box and a list of points
BlockInputs ==
  { CuboidMesh(4, 2, 6),
    [vertices |-> bounding_box(<< <<0, 0, 0>>, <<2, 2, 2>> >>), faces |-> box_faces, type |-> "Box"],
    [vertices |-> << <<0, 0, 0>>, <<2, 2, 2>> >>, faces |-> <<>>, type |-> "list"] }

(***************************************************************************)
(* The broad phase of the collider (compas_model.algorithms.collider), by   *)
(* its contract: every unordered pair of elements is a candidate when the  *)
(* axis aligned boxes of the two overlap on the three axes, the interval    *)
(* test expanded by the tolerance.  Lengths are in hundredths of a unit.   *)
(***************************************************************************)
\* a block of the query: the unit cube moved by an offset
UnitBlock(offset) ==
  Block(mesh_transform(CuboidMesh(100, 100, 100),
                       Xform(<<1, 0, 0>>, <<0, 1, 0>>, <<0, 0, 1>>, offset))).el

\* the lowest and the highest coordinate k of the aabb of an element
aabb_min(e, k) == SeqMin(box_vertices(aabb(e).ret[1]), k)

aabb_max(e, k) == SeqMax(box_vertices(aabb(e).ret[1]), k)

\* the intervals of both boxes, each widened by the tolerance
overlap_each_expanded(lo1, hi1, lo2, hi2, tolerance) ==
  lo1 - tolerance <= hi2 + tolerance /\ lo2 - tolerance <= hi1 + tolerance

\* the interval overlap test on one axis, expanded by the tolerance
interval_overlap(lo1, hi1, lo2, hi2, tolerance) ==
  lo1 - tolerance <= hi2 /\ lo2 - tolerance <= hi1

\* the boxes of two elements overlap on the three axes
aabb_overlap(e1, e2, tolerance) ==
  \A k \in 1..3 :
    interval_overlap(aabb_min(e1, k), aabb_max(e1, k), aabb_min(e2, k), aabb_max(e2, k),
                     tolerance)

\* every pair of indices of n elements, one after the other
all_index_pairs(n) == [p \in 1..(n * n) |-> <<(p - 1) \div n, (p - 1) % n>>]

\* the pairs (i, j) with i < j of n elements, in the order of i, then of j
ordered_and_reversed_pairs(n) ==
  SelectSeq(all_index_pairs(n), LAMBDA pair : pair[1] # pair[2])

index_pairs(n) == SelectSeq(all_index_pairs(n), LAMBDA pair : pair[1] < pair[2])

\* the candidates among the pairs, kept in their order
RECURSIVE candidates(_, _, _)
candidates(elements, pairs, tolerance) ==
  IF pairs = <<>> THEN <<>>
  ELSE IF aabb_overlap(elements[Head(pairs)[1] + 1], elements[Head(pairs)[2] + 1], tolerance)
  THEN <<Head(pairs)>> \o candidates(elements, Tail(pairs), tolerance)
  ELSE candidates(elements, Tail(pairs), tolerance)

\* the broad phase: the candidate pairs of the elements
broad_phase(elements, tolerance) ==
  candidates(elements, index_pairs(Len(elements)), tolerance)

\* the offsets of the blocks of a query: apart, in face contact, 0.02 apart,
\* overlapping, and 0.01 apart along y; and the tolerances 0, 0.01 and 0.02
Offsets == {<<0, 0, 0>>, <<100, 0, 0>>, <<102, 0, 0>>, <<50, 50, 0>>, <<0, 101, 0>>}

Tolerances == {0, 1, 2}

Queries == UNION {[1..n -> Offsets] : n \in 0..MaxElements}

(***************************************************************************)
(* The state machine: one object under the caller's hand (el), the object  *)
(* it was copied from by the last transformed (orig), the objects and the  *)
(* arguments the consecutive transformed calls started from (chain), the   *)
(* last call with its outcome (last), its return value (ret) and the       *)
(* number of transform and transformed calls so far (ncalls).              *)
(***************************************************************************)
Call(op, arg, r) == [err |-> r.err, calls |-> r.calls, op |-> op, arg |-> arg]

Init ==
  /\ el = NoElement
  /\ orig = NoElement
  /\ chain = <<>>
  /\ last = [err |-> "ok", calls |-> {}, op |-> "init", arg |-> <<>>]
  /\ ret = None
  /\ ncalls = 0

Exists == el.kind # "None"

\* a constructor call: the object exists afterwards unless the call raised
Construct(op, arg, r) ==
  /\ ~Exists
  /\ el' = r.el
  /\ last' = Call(op, arg, r)
  /\ ret' = None
  /\ UNCHANGED <<orig, chain, ncalls>>

NewBeam ==
  \E frame \in Frames, l \in Lengths, w \in Widths, h \in Heights :
    Construct("Beam", <<frame, l, w, h>>, Beam(frame, l, w, h))

NewBeamFromLine ==
  \E line \in Lines, w \in LineSizes, h \in LineSizes, z \in ZVectors :
    Construct("from_line", <<line, w, h, z>>, from_line(line, w, h, z))

NewBlock ==
  \E m \in BlockInputs : Construct("Block", <<m>>, Block(m))

\* a method call on the object: it is left as the call leaves it
Method(op, arg, r) ==
  /\ Exists
  /\ el' = r.el
  /\ last' = Call(op, arg, r)
  /\ ret' = r.ret
  /\ orig' = NoElement
  /\ chain' = <<>>
  /\ UNCHANGED ncalls

GetAabb == Method("aabb", <<>>, aabb(el))

GetObb == Method("obb", <<>>, obb(el))

GetCollisionMesh == Method("collision_mesh", <<>>, collision_mesh(el))

GetFacePolygons == Method("face_polygons", <<>>, face_polygons(el))

GetDimensions == Method("dimensions", <<>>, dimensions(el))

ComputeAabb == \E i \in Inflates : Method("compute_aabb", <<i>>, compute_aabb(el, i))

ComputeObb == \E i \in Inflates : Method("compute_obb", <<i>>, compute_obb(el, i))

ComputeCollisionMesh == Method("compute_collision_mesh", <<>>, compute_collision_mesh(el))

\* transform(T) changes the object in place
TransformCall(T, r) ==
  /\ Exists
  /\ ncalls < MaxCalls
  /\ el' = r.el
  /\ last' = Call("transform", <<T>>, r)
  /\ ret' = None
  /\ ncalls' = ncalls + 1
  /\ orig' = NoElement
  /\ chain' = <<>>

Transform == \E T \in Transforms : TransformCall(T, transform(el, T))

\* transformed(T): the caller goes on with the copy that is returned, and
\* keeps the object it was made from; when the call raises there is no copy
\* and the caller is left with the object
TransformedCall(T, r) ==
  /\ Exists
  /\ ncalls < MaxCalls
  /\ last' = Call("transformed", <<T>>, r)
  /\ ret' = r.ret
  /\ orig' = r.el
  /\ el' = IF r.err = "ok" THEN r.ret[1] ELSE r.el
  /\ chain' = IF r.err = "ok" THEN Append(chain, [T |-> T, e |-> el]) ELSE <<>>
  /\ ncalls' = ncalls + 1

Transformed ==
  \E T \in Transforms, items \in BoxItems : TransformedCall(T, transformed(el, T, items))

\* Element(geometry, frame), of the base class or of a subclass that computes
\* its geometry, with a geometry or without
Shapes == {NoGeometry, Box(2, 2, 2, WorldXY)}

NewElement ==
  \E kind \in {"Element", "Derived"}, g \in Shapes :
    Construct("Element", <<kind, g>>,
              Result(Element(kind, WorldXY, None, g, None), "ok", {}, None))

GetGeometry == Method("geometry", <<>>, geometry(el))

\* get_collision_pairs on blocks at the given offsets: the broad phase.  It
\* keeps no state, so one query from the initial state stands for any query.
BroadPhase ==
  \E offsets \in Queries, tolerance \in Tolerances :
    /\ last.op = "init"
    /\ last' = Call("get_collision_pairs", <<offsets, tolerance>>,
                    Result(el, "ok", {},
                           broad_phase([i \in 1..Len(offsets) |-> UnitBlock(offsets[i])],
                                       tolerance)))
    /\ ret' = broad_phase([i \in 1..Len(offsets) |-> UnitBlock(offsets[i])], tolerance)
    /\ UNCHANGED <<el, orig, chain, ncalls>>

Next ==
  \/ NewBeam
  \/ NewBeamFromLine
  \/ NewBlock
  \/ GetAabb
  \/ GetObb
  \/ GetCollisionMesh
  \/ GetFacePolygons
  \/ GetDimensions
  \/ ComputeAabb
  \/ ComputeObb
  \/ ComputeCollisionMesh
  \/ Transform
  \/ Transformed

Spec == Init /\ [][Next]_vars

\* the calls that read a cache or transform: no compute method is called
\* from outside
NextAccess ==
  \/ NewBeam
  \/ NewBeamFromLine
  \/ NewBlock
  \/ GetAabb
  \/ GetObb
  \/ GetCollisionMesh
  \/ GetFacePolygons
  \/ Transform

SpecAccess == Init /\ [][NextAccess]_vars

\* the calls that touch aabb: its reads, compute_aabb and transform
NextAabb ==
  \/ NewBeam
  \/ NewBeamFromLine
  \/ NewBlock
  \/ GetAabb
  \/ ComputeAabb
  \/ Transform

SpecAabb == Init /\ [][NextAabb]_vars

\* the constructors, the compute methods of the two boxes and transform
NextBoxes ==
  \/ NewBeam
  \/ NewBeamFromLine
  \/ NewBlock
  \/ ComputeAabb
  \/ ComputeObb
  \/ Transform

SpecBoxes == Init /\ [][NextBoxes]_vars

\* the constructors, the compute methods and the reads of their properties
NextCompute ==
  \/ NewBeam
  \/ NewBeamFromLine
  \/ NewBlock
  \/ GetAabb
  \/ GetObb
  \/ GetCollisionMesh
  \/ ComputeAabb
  \/ ComputeObb
  \/ ComputeCollisionMesh

SpecCompute == Init /\ [][NextCompute]_vars

\* the constructors and the reads of geometry
NextGeometry ==
  \/ NewBeam
  \/ NewBeamFromLine
  \/ NewBlock
  \/ NewElement
  \/ GetGeometry

SpecGeometry == Init /\ [][NextGeometry]_vars

\* the queries of the broad phase
NextBroad == BroadPhase

SpecBroad == Init /\ [][NextBroad]_vars

(***************************************************************************)
(* Properties.                                                             *)
(***************************************************************************)
\* the vertices of the geometry: the corners of a box, the vertices of a mesh
Vertices(e) == IF e.kind = "Beam" THEN box_vertices(e.geometry) ELSE e.geometry.vertices

\* two boxes are the same solid: they have the same corners
SameSolid(b1, b2) ==
  {box_vertices(b1)[i] : i \in 1..8} = {box_vertices(b2)[i] : i \in 1..8}

\* every populated cache is what its compute method gives for the object now
CachesFresh(e) ==
  /\ Truthy(e._aabb) => SameSolid(e._aabb[1], compute_aabb(e, 0).ret[1])
  /\ Truthy(e._obb) => SameSolid(e._obb[1], compute_obb(e, 0).ret[1])
  /\ Truthy(e._collision_mesh) => e._collision_mesh = compute_collision_mesh(e).ret
  /\ Truthy(e._face_polygons) => e._face_polygons = compute_face_polygons(e).ret

\* e2 is e with T applied once to the frame, the geometries and to every
\* populated obb, collision mesh and face polygon
AppliedOnce(e, e2, T) ==
  /\ e2.frame = frame_transform(e.frame, T)
  /\ e2.geometry_simplified = transform_points(e.geometry_simplified, T)
  /\ e2.geometry = transform_base(e, T).geometry
  /\ Truthy(e._obb) => e2._obb = Some(box_transform(e._obb[1], T))
  /\ Truthy(e._collision_mesh) =>
       e2._collision_mesh = Some(mesh_transform(e._collision_mesh[1], T))
  /\ Truthy(e._face_polygons) => e2._face_polygons = polygons_transform(e._face_polygons, T)

\* C1: after any sequence of reads of aabb, obb, collision_mesh and
\* face_polygons and of transform calls, every populated cache of a Beam or a
\* Block equals the value computed afresh from the current frame and
\* geometry, and a transform(T) applies T exactly once to the frame, the
\* geometries and every populated obb, collision mesh and face polygon.
C1_CachesFollowTransform ==
  [][/\ Exists' => CachesFresh(el')
     /\ (last'.op = "transform" /\ ncalls' # ncalls) => AppliedOnce(el, el', last'.arg[1])]_vars

\* C2: transform(T) on a Beam or a Block never populates a cache: every one of
\* _aabb, _obb, _collision_mesh and _face_polygons that is unpopulated before
\* the call is unpopulated after it.
C2_TransformPopulatesNothing ==
  [][(last'.op = "transform" /\ ncalls' # ncalls) =>
       /\ ~Truthy(el._aabb) => ~Truthy(el'._aabb)
       /\ ~Truthy(el._obb) => ~Truthy(el'._obb)
       /\ ~Truthy(el._collision_mesh) => ~Truthy(el'._collision_mesh)
       /\ ~Truthy(el._face_polygons) => ~Truthy(el'._face_polygons)]_vars

\* a transform has run on an object with an obb but no aabb
C2_Witness ==
  /\ last.op = "transform"
  /\ last.err = "ok"
  /\ Truthy(el._obb)
  /\ ~Truthy(el._aabb)

\* the message of the first of length, width, height that is not positive
FirstNonPositive(l, w, h) ==
  IF l <= 0 THEN "ValueError: Length should be greater than zero."
  ELSE IF w <= 0 THEN "ValueError: Width should be greater than zero."
  ELSE "ValueError: Height should be greater than zero."

\* C3: Beam(frame, length, width, height) with length, width or height zero
\* or negative raises ValueError and creates no element; the checks run in
\* the order length, width, height, so the first one that is not positive
\* decides the error.
C3_BeamRejectsNonPositive ==
  (last.op = "Beam" /\ (last.arg[2] <= 0 \/ last.arg[3] <= 0 \/ last.arg[4] <= 0)) =>
    /\ last.err = FirstNonPositive(last.arg[2], last.arg[3], last.arg[4])
    /\ ~Exists

\* Beam was called with a length and a width that are both not positive
C3_Witness ==
  /\ last.op = "Beam"
  /\ last.arg[2] <= 0
  /\ last.arg[3] <= 0
  /\ last.err = "ValueError: Length should be greater than zero."

\* C4: Block(closed_mesh) with anything that is no Mesh raises TypeError and
\* creates no element.
C4_BlockRejectsNonMesh ==
  (last.op = "Block" /\ ~IsMesh(last.arg[1])) =>
    /\ last.err = "TypeError: Mesh is not of type compas.datastructures.Mesh"
    /\ ~Exists

\* Block was called with a Box
C4_Witness ==
  /\ last.op = "Block"
  /\ last.arg[1].type = "Box"
  /\ last.err = "TypeError: Mesh is not of type compas.datastructures.Mesh"

\* the axis vector of the last from_line call, and whether its z_vector was
\* given and has a zero cross product with the axis
LineVector == subtract_vectors(last.arg[1][2], last.arg[1][1])

GivenParallel ==
  Truthy(last.arg[4]) /\ IsZero(cross_vectors(LineVector, last.arg[4][1]))

ParallelError ==
  "ValueError: The given z_vector seems to be parallel to the given center_axis."

\* a Beam stands on the start of the axis with the length of the axis
BeamOnLine ==
  /\ last.err = "ok"
  /\ Exists
  /\ el.frame.point = last.arg[1][1]
  /\ width(el.geometry) = length_vector(LineVector)
  /\ el.geometry_simplified = last.arg[1]

SameObservables(e1, e2) ==
  /\ e1.frame = e2.frame
  /\ e1.geometry = e2.geometry
  /\ e1._aabb = e2._aabb
  /\ e1._obb = e2._obb
  /\ e1._collision_mesh = e2._collision_mesh
  /\ e1._face_polygons = e2._face_polygons

\* C6: element.transformed(T) is non-mutating: it returns a new element, and
\* the frame, the geometry and every cache slot of the original (populated or
\* not, and its value) are after the call what they were before it.
C6_TransformedLeavesOriginal ==
  [][(last'.op = "transformed" /\ ncalls' # ncalls) =>
       /\ last'.err = "ok"
       /\ Truthy(ret')
       /\ SameObservables(orig', el)]_vars

\* e2 has the frame, the geometry and every populated cache of e
Reproduces(e, e2) ==
  /\ e2.frame = e.frame
  /\ e2.geometry = e.geometry
  /\ Truthy(e._aabb) => e2._aabb = e._aabb
  /\ Truthy(e._obb) => e2._obb = e._obb
  /\ Truthy(e._collision_mesh) => e2._collision_mesh = e._collision_mesh
  /\ Truthy(e._face_polygons) => e2._face_polygons = e._face_polygons

\* C7: for an element e, Beam or Block, with any of its caches populated, and
\* a rigid transformation T, e.transformed(T).transformed(T.inverse()) returns
\* an element with the frame, the geometry and every populated cache of e.
C7_RoundTrip ==
  /\ last.op = "transformed" => last.err = "ok"
  /\ (Len(chain) = 2 /\ chain[2].T = Inverse(chain[1].T)) => Reproduces(chain[1].e, el)

\* C8: a read of aabb, obb, collision_mesh or face_polygons whose slot is
\* populated returns the stored value, leaves the slot as it is and calls no
\* compute method.
C8_PopulatedCacheIsReturned ==
  [][/\ (last'.op = "aabb" /\ Truthy(el._aabb)) =>
          ret' = el._aabb /\ el'._aabb = el._aabb /\ last'.calls = {}
     /\ (last'.op = "obb" /\ Truthy(el._obb)) =>
          ret' = el._obb /\ el'._obb = el._obb /\ last'.calls = {}
     /\ (last'.op = "collision_mesh" /\ Truthy(el._collision_mesh)) =>
          /\ ret' = el._collision_mesh
          /\ el'._collision_mesh = el._collision_mesh
          /\ last'.calls = {}
     /\ (last'.op = "face_polygons" /\ Truthy(el._face_polygons)) =>
          /\ ret' = el._face_polygons
          /\ el'._face_polygons = el._face_polygons
          /\ last'.calls = {}]_vars

\* aabb was read from a populated slot: nothing was computed
C8_Witness ==
  /\ last.op = "aabb"
  /\ last.calls = {}
  /\ Truthy(el._aabb)
  /\ ret = el._aabb

\* the point p lies in the box: along each axis of the box it is no further
\* from the centre than half the size
InsideBox(box, p) ==
  /\ 2 * Abs(dot_vectors(subtract_vectors(p, box.frame.point), box.frame.xaxis)) <= box.xsize
  /\ 2 * Abs(dot_vectors(subtract_vectors(p, box.frame.point), box.frame.yaxis)) <= box.ysize
  /\ 2 * Abs(dot_vectors(subtract_vectors(p, box.frame.point), zaxis(box.frame))) <= box.zsize

\* C9: after any sequence of reads of aabb, compute_aabb(inflate) calls with
\* inflate >= 0 and transform calls, a populated aabb encloses every vertex of
\* the geometry the element has now.
C9_AabbEnclosesGeometry ==
  (Exists /\ Truthy(el._aabb)) =>
    \A i \in 1..Len(Vertices(el)) : InsideBox(el._aabb[1], Vertices(el)[i])

\* a transform has moved an object whose aabb is populated
C9_Witness ==
  /\ last.op = "transform"
  /\ last.err = "ok"
  /\ Truthy(el._aabb)
  /\ el.frame # WorldXY

\* the three sizes of a box
Sizes(box) == <<box.xsize, box.ysize, box.zsize>>

\* the box of the last compute_aabb or compute_obb call, and the box the same
\* call gives without inflation
Inflated == IF last.op = "compute_aabb" THEN el._aabb[1] ELSE el._obb[1]

Plain ==
  IF last.op = "compute_aabb" THEN compute_aabb(el, 0).ret[1] ELSE compute_obb(el, 0).ret[1]

\* the ratios xsize : ysize : zsize of two boxes are the same
SameProportions(b1, b2) ==
  /\ b1.xsize * b2.ysize = b1.ysize * b2.xsize
  /\ b1.ysize * b2.zsize = b1.zsize * b2.ysize

\* every size of b1 is the size of b2 plus inflate
SizesAdded(b1, b2, inflate) ==
  Sizes(b1) = <<b2.xsize + inflate, b2.ysize + inflate, b2.zsize + inflate>>

\* C10 as stated: compute_aabb(inflate) and compute_obb(inflate) of a Beam
\* keep the proportions xsize : ysize : zsize of the box without inflation,
\* and those of a Block add inflate to each of the three sizes.
C10_BeamKeepsProportions ==
  last.op \in {"compute_aabb", "compute_obb"} =>
    IF el.kind = "Beam" THEN SameProportions(Inflated, Plain)
    ELSE SizesAdded(Inflated, Plain, last.arg[1])

\* C10 amended: compute_aabb(inflate) and compute_obb(inflate) of a Beam
\* multiply each size s by (s + inflate) / s, which is s + inflate: inflate is
\* added to each of the three sizes, as it is for a Block, and the proportions
\* of the box are kept only when inflate is 0 or the three sizes are equal.
C10_InflateIsAdded ==
  last.op \in {"compute_aabb", "compute_obb"} =>
    /\ SizesAdded(Inflated, Plain, last.arg[1])
    /\ el.kind = "Beam" =>
         (SameProportions(Inflated, Plain) <=>
            (last.arg[1] = 0 \/ (Plain.xsize = Plain.ysize /\ Plain.ysize = Plain.zsize)))

\* compute_aabb(2) was called on a Beam whose sizes are not all equal
C10_Witness ==
  /\ last.op = "compute_aabb"
  /\ last.arg[1] = 2
  /\ el.kind = "Beam"
  /\ Sizes(el.geometry) = <<4, 2, 2>>
  /\ Sizes(Plain) = <<2, 4, 2>>
  /\ Sizes(Inflated) = <<4, 6, 4>>

\* the vertex loop of face f of a mesh
FaceLoop(mesh, f) == [k \in 1..Len(mesh.faces[f]) |-> mesh.vertices[mesh.faces[f][k]]]

\* C11: for a Block built from a closed mesh with F planar faces, a read of
\* face_polygons returns exactly F polygons, one per face of the mesh, each
\* the vertex loop of that face.
C11_BlockFacePolygons ==
  (last.op = "face_polygons" /\ el.kind = "Block") =>
    /\ Len(ret) = Len(el.geometry.faces)
    /\ \A f \in 1..Len(el.geometry.faces) : ret[f] = FaceLoop(el.geometry, f)

\* the corners of a box, as a set
Corners(box) == {box_vertices(box)[i] : i \in 1..8}

\* four times the centre of a quad: the sum of its vertices
QuadSum(q) == add_vectors(add_vectors(q[1], q[2]), add_vectors(q[3], q[4]))

\* four times the centres of the faces +y, -z, -y, +z, start and end of a box
\* whose x axis is the axis of the beam
FaceSums(box) ==
  << add_vectors(scale_vector(box.frame.point, 4), scale_vector(box.frame.yaxis, 2 * box.ysize)),
     subtract_vectors(scale_vector(box.frame.point, 4), scale_vector(zaxis(box.frame), 2 * box.zsize)),
     subtract_vectors(scale_vector(box.frame.point, 4), scale_vector(box.frame.yaxis, 2 * box.ysize)),
     add_vectors(scale_vector(box.frame.point, 4), scale_vector(zaxis(box.frame), 2 * box.zsize)),
     subtract_vectors(scale_vector(box.frame.point, 4), scale_vector(box.frame.xaxis, 2 * box.xsize)),
     add_vectors(scale_vector(box.frame.point, 4), scale_vector(box.frame.xaxis, 2 * box.xsize)) >>

\* the polygons are the six faces of the box, in the order +y, -z, -y, +z,
\* start, end, each with four corners of the box
SixFacesOf(polygons, box) ==
  /\ Len(polygons) = 6
  /\ \A f \in 1..6 :
       /\ Len(polygons[f]) = 4
       /\ \A k \in 1..4 : polygons[f][k] \in Corners(box)
       /\ QuadSum(polygons[f]) = FaceSums(box)[f]

\* C12: for every Beam with positive length L, width W and height H, equal or
\* not, compute_face_polygons returns exactly 6 quadrilaterals in the order
\* +y, -z, -y, +z, start, end, and the 4 vertices of each are corners of the
\* box geometry of the beam.
C12_BeamFacePolygons ==
  (Exists /\ el.kind = "Beam") => SixFacesOf(compute_face_polygons(el).ret, el.geometry)

\* C13 as stated: a read of geometry calls compute_geometry only when no
\* geometry is stored, the result is stored and returned, and a read with a
\* stored geometry returns it without a call: the geometry is computed at most
\* once, and never when it was supplied at construction.
C13_GeometryComputedOnce ==
  [][last'.op = "geometry" =>
       /\ last'.err = "ok"
       /\ el'.geometry # NoGeometry
       /\ ret' = Some(el'.geometry)
       /\ el.geometry # NoGeometry => (last'.calls = {} /\ el' = el)]_vars

\* C13 amended: a read of geometry calls compute_geometry exactly when the
\* stored geometry is None; a geometry that compute_geometry returns is stored
\* and returned, and every later read returns the stored geometry without a
\* call; when compute_geometry raises, as Element.compute_geometry does,
\* nothing is stored and the next read calls it again; a geometry supplied at
\* construction is returned without any call.
C13_GeometryStored ==
  [][last'.op = "geometry" =>
       IF el.geometry # NoGeometry
       THEN last'.calls = {} /\ last'.err = "ok" /\ ret' = Some(el.geometry) /\ el' = el
       ELSE /\ last'.calls = {"compute_geometry"}
            /\ IF last'.err = "ok"
               THEN el'.geometry # NoGeometry /\ ret' = Some(el'.geometry)
               ELSE el' = el /\ el.kind = "Element"]_vars

\* the geometry a subclass computed at the first read is read again: no call
C13_Witness ==
  /\ last.op = "geometry"
  /\ last.calls = {}
  /\ el.kind = "Derived"
  /\ el.geometry = derived_shape(el)
  /\ ret = Some(el.geometry)

\* the number of elements and the tolerance of the last broad phase query
QuerySize == Len(last.arg[1])

\* C14: for N elements and any tolerance the broad phase returns index pairs
\* (i, j) with 0 <= i < j < N and no pair twice: never both (i, j) and (j, i),
\* never (i, i).
C14_PairsOrderedAndUnique ==
  last.op = "get_collision_pairs" =>
    /\ \A p \in 1..Len(ret) : 0 <= ret[p][1] /\ ret[p][1] < ret[p][2] /\ ret[p][2] < QuerySize
    /\ \A p, q \in 1..Len(ret) : p # q => ret[p] # ret[q]
    /\ \A p, q \in 1..Len(ret) : ret[p] # <<ret[q][2], ret[q][1]>>

\* a query of three blocks returned the three pairs
C14_Witness ==
  /\ last.op = "get_collision_pairs"
  /\ QuerySize = 3
  /\ ret = << <<0, 1>>, <<0, 2>>, <<1, 2>> >>

\* the gap between the unit cubes at two offsets along axis k (negative when
\* they overlap)
Gap(o1, o2, k) == Max(o1[k] - (o2[k] + 100), o2[k] - (o1[k] + 100))

\* the pair (i, j) of the last query is in the output
Emitted(i, j) == \E p \in 1..Len(ret) : ret[p] = <<i, j>>

\* C15: the broad phase emits the pair (i, j), i < j, exactly when the boxes
\* of the two elements are no further apart than the tolerance on each of the
\* three axes: unit cubes in face contact with tolerance 0.01 are emitted as
\* (0, 1), unit cubes 0.02 apart with tolerance 0.01 are not, and no pair
\* within the tolerance is missed.
C15_PairsWithinTolerance ==
  last.op = "get_collision_pairs" =>
    /\ \A i, j \in 0..(QuerySize - 1) :
         i < j => (Emitted(i, j) <=>
                     \A k \in 1..3 : Gap(last.arg[1][i + 1], last.arg[1][j + 1], k) <= last.arg[2])
    /\ last.arg = << << <<0, 0, 0>>, <<100, 0, 0>> >>, 1 >> => ret = << <<0, 1>> >>
    /\ last.arg = << << <<0, 0, 0>>, <<102, 0, 0>> >>, 1 >> => ret = <<>>

\* two unit cubes 0.02 apart were queried with tolerance 0.01: no pair
C15_Witness ==
  /\ last.op = "get_collision_pairs"
  /\ last.arg = << << <<0, 0, 0>>, <<102, 0, 0>> >>, 1 >>
  /\ ret = <<>>

\* C16: every transform(T) call on a Block or a Beam returns normally, whatever
\* caches are populated, a Block with a populated collision mesh included.
C16_TransformReturns ==
  last.op = "transform" => last.err = "ok"

C18_ComputeOverwritesCache ==
  [][/\ last'.op = "compute_aabb" =>
          /\ Truthy(el'._aabb) /\ el'._aabb = ret'
          /\ SizesAdded(ret'[1], compute_aabb(el', 0).ret[1], last'.arg[1])
     /\ last'.op = "compute_obb" =>
          /\ Truthy(el'._obb) /\ el'._obb = ret'
          /\ SizesAdded(ret'[1], compute_obb(el', 0).ret[1], last'.arg[1])
     /\ last'.op = "compute_collision_mesh" =>
          Truthy(el'._collision_mesh) /\ el'._collision_mesh = ret'
     /\ \/ last.op = "compute_aabb" /\ last'.op = "aabb"
        \/ last.op = "compute_obb" /\ last'.op = "obb"
        \/ last.op = "compute_collision_mesh" /\ last'.op = "collision_mesh"
        => ret' = ret /\ el' = el /\ last'.calls = {}]_vars

\* aabb was read from the slot of a Block and is the box compute_aabb(2) left
\* there, not the box of the default inflate
C18_Witness ==
  /\ last.op = "aabb"
  /\ last.calls = {}
  /\ el.kind = "Block"
  /\ ret = el._aabb
  /\ SizesAdded(ret[1], compute_aabb(el, 0).ret[1], 2)

\* the extent of a point list along coordinate k
Extent(ps, k) == SeqMax(ps, k) - SeqMin(ps, k)

\* C19: every read of dimensions of a Block calls compute_aabb with inflate 0
\* and leaves its box in the aabb slot, whether the slot was empty or held an
\* inflated box; the value returned is [width, height, depth] of that box, the
\* extents of the mesh along x, z and y, without any inflation.
C19_BlockDimensionsRecomputeAabb ==
  [][(last'.op = "dimensions" /\ el.kind = "Block") =>
       /\ "compute_aabb" \in last'.calls
       /\ Truthy(el'._aabb)
       /\ el'._aabb = compute_aabb(el, 0).ret
       /\ el' = [el EXCEPT !._aabb = el'._aabb]
       /\ Sizes(el'._aabb[1]) = <<Extent(el.geometry.vertices, 1),
                                  Extent(el.geometry.vertices, 2),
                                  Extent(el.geometry.vertices, 3)>>
       /\ ret' = <<Extent(el.geometry.vertices, 1), Extent(el.geometry.vertices, 3),
                   Extent(el.geometry.vertices, 2)>>]_vars

\* dimensions of the 4 x 2 x 6 block were read: the aabb slot holds the box
\* without inflation
C19_Witness ==
  /\ last.op = "dimensions"
  /\ el.kind = "Block"
  /\ "compute_aabb" \in last.calls
  /\ ret = <<4, 6, 2>>
  /\ Truthy(el._aabb)
  /\ Sizes(el._aabb[1]) = <<4, 2, 6>>

====
